---- MODULE Spec2Model ----
(***************************************************************************)
(* Authentication and session lifecycle of the music-app backend:          *)
(* JWTService (token codec), refreshTokenRepository (refresh_tokens table) *)
(* and AuthService (token issue, refresh, logout, revoke-all, cleanup),    *)
(* with the HTTP handlers and the JWTAuth middleware that call them.       *)
(***************************************************************************)
EXTENDS Integers, FiniteSets, Sequences, Bags, TLC

(***************************************************************************)
(* Bounds of the model.                                                    *)
(***************************************************************************)
NumUsers == 2
MaxInflight == 2
MaxTime == 2
MaxUuid == 9
AccessTTL == 1
RefreshTTL == 1

Users == 1..NumUsers

(***************************************************************************)
(* Token types and the secrets a deployment may configure.                 *)
(***************************************************************************)
TokenTypeAccess == "access"
TokenTypeRefresh == "refresh"

Secrets == {"", "k1", "k2"}

\* validate(): both JWT secrets are required to be non-empty, nothing else.
validate(acc, ref) == acc # "" /\ ref # ""

\* NewJWTService: the service keeps the two secrets and the two TTLs as given.
NewJWTService(acc, ref, accessTTL, refreshTTL, method) ==
    [accessSecret |-> acc, refreshSecret |-> ref,
     accessTokenTTL |-> accessTTL, refreshTokenTTL |-> refreshTTL,
     signingMethod |-> method]

VARIABLES
    jwtService,   \* the JWTService built at start-up from the accepted config
    now,          \* time.Now(), in whole seconds
    uuidCounter,  \* number of uuid.New() values drawn so far
    store,        \* rows of the refresh_tokens table
    issued,       \* signed tokens that were returned to a client
    inflight,     \* RefreshTokens calls that have read their record and not returned
    audit,        \* the Info log: rotations, revocations
    logged,       \* the kinds of event the log keeps
    users,        \* rows of the users table
    pending,      \* Register and GoogleSignIn calls between their lookup and their insert
    reply,        \* the response of the last account request that returned
    favorites,    \* rows of the favorites table
    tracks,       \* rows of the playlist_tracks table
    search,       \* the SearchAllProviders call: its locals, goroutines and channel
    dbUp          \* whether the database answers the statements sent to it

\* the state of the account handlers
accounts == <<users, pending, reply>>

\* the state of the library, the playlists and the provider registry
media == <<favorites, tracks, search>>

vars ==
    <<jwtService, now, uuidCounter, store, issued, inflight, audit, logged, accounts, media,
      dbUp>>

(***************************************************************************)
(* Signed tokens.  A token carries the claims of Claims plus the header    *)
(* algorithm and the key its signature was made with.                      *)
(***************************************************************************)
Token(typ, key, alg, jti, uid, iat, exp) ==
    [typ |-> typ, key |-> key, alg |-> alg, jti |-> jti, uid |-> uid,
     email |-> "", roles |-> {}, iat |-> iat, nbf |-> iat, exp |-> exp]

\* a string that is not a JWT at all
Malformed == Token("none", "", "malformed", 0, 0, 0, 0)

NoToken == Token("none", "", "absent", 0, 0, 0, 0)

\* GenerateTokenPair: two fresh uuids, same claims, the access token signed
\* with the access secret, the refresh token with the refresh secret.
GenerateTokenPair(js, uid, email, roles, t, n) ==
    [access  |-> [Token(TokenTypeAccess, js.accessSecret, js.signingMethod,
                        n + 1, uid, t, t + js.accessTokenTTL)
                     EXCEPT !.email = email, !.roles = roles],
     refresh |-> [Token(TokenTypeRefresh, js.refreshSecret, js.signingMethod,
                        n + 2, uid, t, t + js.refreshTokenTTL)
                     EXCEPT !.email = email, !.roles = roles]]

\* jwt.ParseWithClaims with the key function of the two Verify methods:
\* parse, algorithm check, signature, then exp and nbf.
ParseWithClaims(js, tok, secret, t) ==
    /\ tok.alg # "malformed"
    /\ tok.alg # "absent"
    /\ tok.alg = js.signingMethod
    /\ tok.key = secret
    /\ t < tok.exp
    /\ tok.nbf <= t

VerifyAccessTokenNoTypeCheck(js, tok, t) ==
    ParseWithClaims(js, tok, js.accessSecret, t)

VerifyAccessTokenUnlessRevoked(js, tok, t) ==
    /\ ParseWithClaims(js, tok, js.accessSecret, t)
    /\ tok.typ = TokenTypeAccess
    /\ \A r \in store : r.UserID = tok.uid => ~r.Revoked

VerifyAccessToken(js, tok, t) ==
    /\ ParseWithClaims(js, tok, js.accessSecret, t)
    /\ tok.typ = TokenTypeAccess

VerifyRefreshToken(js, tok, t) ==
    /\ ParseWithClaims(js, tok, js.refreshSecret, t)
    /\ tok.typ = TokenTypeRefresh

(***************************************************************************)
(* The refresh_tokens table.                                               *)
(***************************************************************************)
NoString == 0

RefreshToken(id, uid, jti, iat, exp) ==
    [ID |-> id, UserID |-> uid, TokenID |-> jti, IssuedAt |-> iat,
     ExpiresAt |-> exp, Revoked |-> FALSE, ReplacedBy |-> NoString]

IsValidAtExpiry(rt, t) == ~rt.Revoked /\ ~(rt.ExpiresAt < t)

IsValid(rt, t) == ~rt.Revoked /\ rt.ExpiresAt > t

RevokeAndReplace(rt, replacementTokenID) ==
    [rt EXCEPT !.Revoked = TRUE, !.ReplacedBy = replacementTokenID]

CreateOkNoUniqueIndex(db, rt) == \A r \in db : r.ID # rt.ID

\* Create: the unique index on token_id (and the primary key) reject a
\* duplicate; otherwise the row is inserted.
CreateOk(db, rt) ==
    /\ \A r \in db : r.TokenID # rt.TokenID
    /\ \A r \in db : r.ID # rt.ID

Create(db, rt) == IF CreateOk(db, rt) THEN db \cup {rt} ELSE db

GetByTokenID(db, jti) == {r \in db : r.TokenID = jti}

\* variants of the repository and handler code with a plausible slip
RevokeByTokenIDNoWrite(db, jti) == db

RevokeByTokenIDToggle(db, jti) ==
    {IF r.TokenID = jti THEN [r EXCEPT !.Revoked = ~r.Revoked] ELSE r : r \in db}

RevokeAllNoWhere(db, uid) == {[r EXCEPT !.Revoked = TRUE] : r \in db}

RevokeByTokenID(db, jti) ==
    {IF r.TokenID = jti THEN [r EXCEPT !.Revoked = TRUE] ELSE r : r \in db}

RevokeAllToggle(db, uid) ==
    {IF r.UserID = uid THEN [r EXCEPT !.Revoked = ~r.Revoked] ELSE r : r \in db}

RevokeAllAndExpire(db, uid) ==
    {IF r.UserID = uid THEN [r EXCEPT !.Revoked = TRUE, !.ExpiresAt = 0] ELSE r : r \in db}

RepoRevokeAllUserTokens(db, uid) ==
    {IF r.UserID = uid THEN [r EXCEPT !.Revoked = TRUE] ELSE r : r \in db}

RepoCleanExpiringTokens(db, t) == {r \in db : ~(r.ExpiresAt < t + 2)}

RepoCleanExpiredTokens(db, t) == {r \in db : ~(r.ExpiresAt < t)}

(***************************************************************************)
(* Initial state: the configuration passed validate(), nothing is stored.  *)
(***************************************************************************)
\* no account request has been served
NoReply == [op |-> "none", status |-> 0, code |-> "", uid |-> 0, tokens |-> FALSE]

\* no SearchAllProviders call has been made
NoSearch ==
    [pc |-> "idle", providers |-> {}, goroutines |-> {}, resultChan |-> <<>>,
     i |-> 0, results |-> {}, pageInfos |-> {}, errors |-> <<>>]

NoMedia ==
    /\ favorites = {}
    /\ tracks = {}
    /\ search = NoSearch

\* the users table is empty and no account request is under way
NoAccounts ==
    /\ users = {}
    /\ pending = EmptyBag
    /\ reply = NoReply

InitLogging(kinds) ==
    /\ jwtService = NewJWTService("k1", "k2", AccessTTL, RefreshTTL, "HS256")
    /\ validate(jwtService.accessSecret, jwtService.refreshSecret)
    /\ now = 0
    /\ uuidCounter = 0
    /\ store = {}
    /\ issued = {}
    /\ inflight = EmptyBag
    /\ audit = {}
    /\ logged = kinds
    /\ NoAccounts
    /\ NoMedia
    /\ dbUp = TRUE

Init == InitLogging({"rotated"})

\* what a client can put in a request: a token it was given, or junk
Presentable == issued \cup {Malformed}

\* log entries: a rotation of jti into by, a logout of jti, a revoke-all
\* that covered jti
Entry(kind, jti, by) == [kind |-> kind, jti |-> jti, by |-> by]

\* what the log already says about a token id
After(jti) == {e.kind : e \in {x \in audit : x.jti = jti}}

\* the entries of es that the log keeps
Log(es) == {e \in es : e.kind \in logged}

\* a nil *string of a users row
Nil == "nil"

\* the roles of a user the service creates
DefaultRoles == {"user"}

\* the email and the roles a handler passes to GenerateTokens: those of the
\* user's row as the handler holds it ("" for a nil email)
EmailOf(u) == IF u.Email = Nil THEN "" ELSE u.Email

\* the row of user uid as a handler reads it; when the users table is not
\* part of the run, a freshly created user without email
Identity(uid) ==
    IF \E u \in users : u.ID = uid
    THEN CHOOSE u \in users : u.ID = uid
    ELSE [ID |-> uid, Email |-> Nil, Roles |-> DefaultRoles]

\* user ids are handed out in the order the users first sign in
KnownUsers == {t.uid : t \in issued}

NextUser(u) == \A v \in Users : v < u => v \in KnownUsers

(***************************************************************************)
(* AuthService.GenerateTokens, reached from Register, Login, GoogleSignIn. *)
(***************************************************************************)
GenerateTokensErrIgnoresCreate(pair, rt) ==
    IF ~VerifyRefreshToken(jwtService, pair.refresh, now)
    THEN "failed to parse generated refresh token"
    ELSE ""

GenerateTokensErr(pair, rt) ==
    IF ~VerifyRefreshToken(jwtService, pair.refresh, now)
    THEN "failed to parse generated refresh token"
    ELSE IF ~dbUp \/ ~CreateOk(store, rt) THEN "failed to store refresh token"
    ELSE ""

GenerateTokens(u) ==
    /\ NextUser(u)
    /\ uuidCounter + 3 <= MaxUuid
    /\ LET pair == GenerateTokenPair(jwtService, u, EmailOf(Identity(u)),
                                     Identity(u).Roles, now, uuidCounter)
           rt   == RefreshToken(uuidCounter + 3, u, pair.refresh.jti,
                                pair.refresh.iat, pair.refresh.exp)
       IN  /\ uuidCounter' = uuidCounter + 3
           /\ IF GenerateTokensErr(pair, rt) = ""
              THEN /\ store' = Create(store, rt)
                   /\ issued' = issued \cup {pair.access, pair.refresh}
              ELSE UNCHANGED <<store, issued>>
    /\ UNCHANGED <<jwtService, dbUp, media, logged, accounts, now, inflight, audit>>

(***************************************************************************)
(* AuthService.RefreshTokens, in two steps: the read of the stored record, *)
(* then the validity check, the new pair and the insert of its record.     *)
(***************************************************************************)
\* the error of the first half: verification and lookup
RefreshLookupErr(tok) ==
    IF ~VerifyRefreshToken(jwtService, tok, now) THEN "invalid refresh token"
    ELSE IF ~dbUp THEN "failed to get refresh token"
    ELSE IF GetByTokenID(store, tok.jti) = {} THEN "refresh token not found"
    ELSE ""

\* the locals of a call between its two steps: the presented token, the
\* record as it was read, and what the log said of the token at that moment
Call(tok, rt, after) == [tok |-> tok, storedToken |-> rt, after |-> after]

RefreshStart(tok) ==
    /\ BagCardinality(inflight) < MaxInflight
    /\ tok \in Presentable
    /\ IF RefreshLookupErr(tok) # ""
       THEN UNCHANGED inflight
       ELSE \E rt \in GetByTokenID(store, tok.jti) :
               inflight' = inflight (+) SetToBag({Call(tok, rt, After(tok.jti))})
    /\ UNCHANGED <<jwtService, dbUp, media, logged, accounts, now, uuidCounter, store, issued, audit>>

NewPairRereadsIdentity(c) ==
    GenerateTokenPair(jwtService, c.tok.uid, EmailOf(Identity(c.tok.uid)),
                      Identity(c.tok.uid).Roles, now, uuidCounter)

NewPairForFirstUser(c) ==
    GenerateTokenPair(jwtService, 1, c.tok.email, c.tok.roles, now, uuidCounter)

NewPair(c) ==
    GenerateTokenPair(jwtService, c.tok.uid, c.tok.email, c.tok.roles, now, uuidCounter)

NewRecordExpiresAtIssue(c) ==
    RefreshToken(uuidCounter + 3, c.tok.uid, NewPair(c).refresh.jti,
                 NewPair(c).refresh.iat, NewPair(c).refresh.iat)

NewRecord(c) ==
    RefreshToken(uuidCounter + 3, c.tok.uid, NewPair(c).refresh.jti,
                 NewPair(c).refresh.iat, NewPair(c).refresh.exp)

RefreshIssueErrIgnoresCreate(c) ==
    IF ~IsValid(c.storedToken, now) THEN "refresh token is revoked or expired"
    ELSE IF ~VerifyRefreshToken(jwtService, NewPair(c).refresh, now)
    THEN "failed to parse new refresh token"
    ELSE ""

RefreshIssueErrRereads(c) ==
    IF ~IsValid(c.storedToken, now) THEN "refresh token is revoked or expired"
    ELSE IF \E r \in store : r.TokenID = c.tok.jti /\ r.Revoked
    THEN "refresh token is revoked or expired"
    ELSE IF ~VerifyRefreshToken(jwtService, NewPair(c).refresh, now)
    THEN "failed to parse new refresh token"
    ELSE IF ~dbUp \/ ~CreateOk(store, NewRecord(c))
    THEN "failed to store new refresh token"
    ELSE ""

\* the error of the second half
RefreshIssueErr(c) ==
    IF ~IsValid(c.storedToken, now) THEN "refresh token is revoked or expired"
    ELSE IF ~VerifyRefreshToken(jwtService, NewPair(c).refresh, now)
    THEN "failed to parse new refresh token"
    ELSE IF ~dbUp \/ ~CreateOk(store, NewRecord(c))
    THEN "failed to store new refresh token"
    ELSE ""

\* RevokeAndReplace is applied to the record that was read, in memory; the
\* only write to the table is the Create of the new record.
RefreshFinish(c) ==
    /\ BagIn(c, inflight)
    /\ LET old == RevokeAndReplace(c.storedToken, NewPair(c).refresh.jti)
       IN  IF ~IsValid(c.storedToken, now)
           THEN UNCHANGED <<uuidCounter, store, issued, audit>>
           ELSE /\ uuidCounter + 3 <= MaxUuid
                /\ uuidCounter' = uuidCounter + 3
                /\ IF RefreshIssueErr(c) = ""
                   THEN /\ store' = Create(store, NewRecord(c))
                        /\ issued' = issued \cup {NewPair(c).access, NewPair(c).refresh}
                        /\ audit' = audit \cup Log({Entry("rotated", old.TokenID, old.ReplacedBy)})
                   ELSE UNCHANGED <<store, issued, audit>>
    /\ inflight' = inflight (-) SetToBag({c})
    /\ UNCHANGED <<jwtService, dbUp, media, logged, accounts, now>>

\* the request dies (process crash, connection torn down) between the steps
Crash(c) ==
    /\ BagIn(c, inflight)
    /\ inflight' = inflight (-) SetToBag({c})
    /\ UNCHANGED <<jwtService, dbUp, media, logged, accounts, now, uuidCounter, store, issued, audit>>

(***************************************************************************)
(* AuthService.RevokeToken behind the Logout handler.  The handler logs a  *)
(* failed revocation and writes the same response either way.              *)
(***************************************************************************)
RevokeTokenErr(tok) ==
    IF ~VerifyRefreshToken(jwtService, tok, now) THEN "invalid refresh token"
    ELSE IF ~dbUp THEN "failed to revoke token"
    ELSE ""

LogoutResponseReportsErr(err) ==
    IF err # "" THEN [status |-> 401, message |-> "Invalid or expired refresh token"]
    ELSE [status |-> 200, message |-> "Logged out successfully"]

LogoutResponse(err) == [status |-> 200, message |-> "Logged out successfully"]

Logout(tok) ==
    /\ tok \in Presentable
    /\ IF RevokeTokenErr(tok) # ""
       THEN UNCHANGED <<store, audit>>
       ELSE /\ store' = RevokeByTokenID(store, tok.jti)
            /\ audit' = audit \cup Log({Entry("logout", tok.jti, 0)})
    /\ UNCHANGED <<jwtService, dbUp, media, logged, accounts, now, uuidCounter, issued, inflight>>

(***************************************************************************)
(* AuthService.RevokeAllUserTokens and AuthService.CleanupExpiredTokens.   *)
(***************************************************************************)
RevokeAllUserTokens(u) ==
    /\ IF dbUp
       THEN /\ store' = RepoRevokeAllUserTokens(store, u)
            /\ audit' = audit \cup Log({Entry("revokeAll", t.jti, 0) :
                            t \in {x \in issued : x.typ = TokenTypeRefresh /\ x.uid = u}})
       ELSE UNCHANGED <<store, audit>>
    /\ UNCHANGED <<jwtService, dbUp, media, logged, accounts, now, uuidCounter, issued, inflight>>

CleanupExpiredTokens ==
    /\ store' = IF dbUp THEN RepoCleanExpiredTokens(store, now) ELSE store
    /\ UNCHANGED <<jwtService, dbUp, media, logged, accounts, now, uuidCounter, issued, inflight, audit>>

Tick ==
    /\ now < MaxTime
    /\ now' = now + 1
    /\ UNCHANGED <<jwtService, dbUp, media, logged, accounts, uuidCounter, store, issued, inflight, audit>>

Next ==
    \/ \E u \in Users : GenerateTokens(u)
    \/ \E tok \in Presentable : RefreshStart(tok)
    \/ \E c \in BagToSet(inflight) : RefreshFinish(c)
    \/ \E c \in BagToSet(inflight) : Crash(c)
    \/ \E tok \in Presentable : Logout(tok)
    \/ \E u \in Users : RevokeAllUserTokens(u)
    \/ CleanupExpiredTokens
    \/ Tick

Spec == Init /\ [][Next]_vars

\* the same service with the log also keeping logouts, or revoke-alls
LogoutSpec == InitLogging({"rotated", "logout"}) /\ [][Next]_vars

RevokeAllSpec == InitLogging({"rotated", "revokeAll"}) /\ [][Next]_vars

\* the database becomes unreachable, or comes back
Outage ==
    /\ dbUp' = ~dbUp
    /\ UNCHANGED <<jwtService, now, uuidCounter, store, issued, inflight, audit, logged,
                   accounts, media>>

FaultNext == Next \/ Outage

\* the same service in front of a database that may fail any statement
FaultSpec == Init /\ [][FaultNext]_vars

\* the same service with a client that holds a refresh token bearing the
\* service's signature whose token id no row carries (the row was lost, or
\* the token was signed elsewhere with the same secret)
Orphan == Token(TokenTypeRefresh, "k2", "HS256", 0, 1, 0, MaxTime + 1)

InitOrphan ==
    /\ jwtService = NewJWTService("k1", "k2", AccessTTL, RefreshTTL, "HS256")
    /\ validate(jwtService.accessSecret, jwtService.refreshSecret)
    /\ now = 0
    /\ uuidCounter = 0
    /\ store = {}
    /\ issued = {Orphan}
    /\ inflight = EmptyBag
    /\ audit = {}
    /\ logged = {"rotated"}
    /\ NoAccounts
    /\ NoMedia
    /\ dbUp = TRUE

OrphanSpec == InitOrphan /\ [][Next]_vars

(***************************************************************************)
(* Password hashing (PasswordHasher) and Google assertions (GoogleService).*)
(***************************************************************************)
\* argon2.IDKey: a function of all its arguments, taken to be injective
IDKey(password, salt, time, memory, threads, keyLen) ==
    <<password, salt, time, memory, threads, keyLen>>

NewPasswordHasher(time, memory, threads) ==
    [time |-> time, memory |-> memory, threads |-> threads, keyLen |-> 32]

\* the hasher the server builds at start-up
passwordHasher == NewPasswordHasher(3, 65536, 2)

\* the salts rand.Read may return
Salts == {"s1"}

\* Hash: "$argon2id$v=..$m=..,t=..,p=..$salt$hash", kept as its six fields
Hash(p, password, salt) ==
    [alg |-> "argon2id", v |-> 19, m |-> p.memory, t |-> p.time, p |-> p.threads,
     salt |-> salt,
     hash |-> IDKey(password, salt, p.time, p.memory, p.threads, p.keyLen)]

\* the error Matches returns for an encoded hash with the six fields
MatchesErr(encodedHash) ==
    IF encodedHash.v # 19 THEN "incompatible version of argon2" ELSE ""

MatchesWithOwnParameters(p, password, encodedHash) ==
    /\ MatchesErr(encodedHash) = ""
    /\ IDKey(password, encodedHash.salt, p.time, p.memory, p.threads, p.keyLen) =
          encodedHash.hash

MatchesSaltOnly(p, password, encodedHash) ==
    /\ MatchesErr(encodedHash) = ""
    /\ encodedHash.hash[2] = encodedHash.salt

\* Matches: the parameters and the key length are read from the encoded
\* hash; the fields of the hasher p are not used
Matches(p, password, encodedHash) ==
    /\ MatchesErr(encodedHash) = ""
    /\ IDKey(password, encodedHash.salt, encodedHash.t, encodedHash.m,
             encodedHash.p, encodedHash.hash[6]) = encodedHash.hash

\* a Google ID token as idtoken.Validate sees it: whether signature, expiry
\* and audience are good, the issuer, the subject, and the two email claims
\* ("absent" when the claim is not in the payload)
Assertion(valid, iss, sub, email, emailVerified) ==
    [valid |-> valid, iss |-> iss, sub |-> sub, email |-> email,
     email_verified |-> emailVerified]

\* claims["email_verified"].(bool): the zero value unless the claim is a true bool
AsBool(claim) == claim = "true"

\* claims["email"].(string): the zero value when the claim is absent
AsString(claim) == IF claim = "absent" THEN "" ELSE claim

VerifyIDTokenErr(a) ==
    IF ~a.valid THEN "failed to verify ID token"
    ELSE IF a.iss # "accounts.google.com" /\ a.iss # "https://accounts.google.com"
    THEN "invalid issuer"
    ELSE IF ~AsBool(a.email_verified) THEN "email not verified"
    ELSE ""

\* the GoogleUser that VerifyIDToken returns when it returns no error
VerifyIDToken(a) ==
    [ID |-> a.sub, Email |-> AsString(a.email), VerifiedEmail |-> AsBool(a.email_verified)]

(***************************************************************************)
(* The users table (user.repository) and the account handlers: Register,   *)
(* Login and GoogleSignIn with user.Service behind them.                   *)
(***************************************************************************)
Emails == {"a@x", "b@x"}

Passwords == {"p", "q"}

Subjects == {"g1", "g2"}

\* LastLoginAt of a user who never logged in
NoTime == -1

\* the nil password hash

NoPassword == [alg |-> "nil"]

User(id, email, password, googleID) ==
    [ID |-> id, Email |-> email, Password |-> password, Roles |-> DefaultRoles,
     IsActive |-> TRUE, GoogleID |-> googleID, LastLoginAt |-> NoTime]

GetUserByEmail(db, email) == {u \in db : u.Email = email}

GetUserByGoogleID(db, googleID) == {u \in db : u.GoogleID = googleID}

\* repository.CreateUser: the insert fails on the primary key and on the
\* unique indexes of email and google_id (a NULL collides with nothing)
CreateUserOk(db, u) ==
    /\ \A r \in db : r.ID # u.ID
    /\ u.Email # Nil => \A r \in db : r.Email # u.Email
    /\ u.GoogleID # Nil => \A r \in db : r.GoogleID # u.GoogleID

\* repository.UpdateUser: Save writes the whole row under its primary key
UpdateUser(db, u) == {r \in db : r.ID # u.ID} \cup {u}

Reply(op, status, code, uid, tokens) ==
    [op |-> op, status |-> status, code |-> code, uid |-> uid, tokens |-> tokens]

\* AuthService.GenerateTokens for the users row u, drawing its uuids after n
IssueTokens(u, n) ==
    LET pair == GenerateTokenPair(jwtService, u.ID, EmailOf(u), u.Roles, now, n)
        rt   == RefreshToken(n + 3, u.ID, pair.refresh.jti, pair.refresh.iat,
                             pair.refresh.exp)
    IN  IF GenerateTokensErr(pair, rt) = ""
        THEN /\ store' = Create(store, rt)
             /\ issued' = issued \cup {pair.access, pair.refresh}
        ELSE UNCHANGED <<store, issued>>

\* whether that call returns a pair (the email and the roles play no part)
IssueTokensOk(uid, n) ==
    LET pair == GenerateTokenPair(jwtService, uid, "", {}, now, n)
        rt   == RefreshToken(n + 3, uid, pair.refresh.jti, pair.refresh.iat,
                             pair.refresh.exp)
    IN  GenerateTokensErr(pair, rt) = ""

\* the response of a handler that went on to GenerateTokens
TokenReply(op, status, uid, n) ==
    IF IssueTokensOk(uid, n) THEN Reply(op, status, "", uid, TRUE)
    ELSE Reply(op, 500, "TOKEN_GENERATION_FAILED", 0, FALSE)

(* Register: Service.CreateUser looks the email up, then hashes and inserts *)
RegisterStart(email, password) ==
    /\ IF GetUserByEmail(users, email) # {}
       THEN /\ reply' = Reply("register", 409, "USER_EXISTS", 0, FALSE)
            /\ UNCHANGED pending
       ELSE /\ BagCardinality(pending) < MaxInflight
            /\ pending' = pending (+) SetToBag({[op |-> "register", email |-> email,
                                                 password |-> password, sub |-> Nil]})
            /\ UNCHANGED reply
    /\ UNCHANGED <<jwtService, dbUp, media, logged, now, uuidCounter, store, issued, inflight, audit, users>>

RegisterFinish(c, salt) ==
    /\ BagIn(c, pending)
    /\ c.op = "register"
    /\ uuidCounter + 4 <= MaxUuid
    /\ pending' = pending (-) SetToBag({c})
    /\ LET u == User(uuidCounter + 1, c.email, Hash(passwordHasher, c.password, salt),
                     Nil)
       IN  IF ~CreateUserOk(users, u)
           THEN /\ reply' = Reply("register", 500, "REGISTRATION_FAILED", 0, FALSE)
                /\ uuidCounter' = uuidCounter + 1
                /\ UNCHANGED <<users, store, issued>>
           ELSE /\ users' = users \cup {u}
                /\ IssueTokens(u, uuidCounter + 1)
                /\ reply' = TokenReply("register", 201, u.ID, uuidCounter + 1)
                /\ uuidCounter' = uuidCounter + 4
    /\ UNCHANGED <<jwtService, dbUp, media, logged, now, inflight, audit>>

(* Login: Service.AuthenticateUser, then GenerateTokens *)
\* what the collaborator does in this call: all goes well, the user lookup
\* fails, or the update of last_login_at fails
IOOutcomes == {"ok", "lookup fails", "update fails"}

AuthenticateUserErrNoMatch(db, email, password, io) ==
    IF io = "lookup fails" THEN "storage error"
    ELSE IF GetUserByEmail(db, email) = {} THEN "authentication failed"
    ELSE IF \E u \in GetUserByEmail(db, email) : u.Password = NoPassword
    THEN "authentication failed"
    ELSE ""

AuthenticateUserErrUpdateFatal(db, email, password, io) ==
    IF io = "lookup fails" THEN "storage error"
    ELSE IF GetUserByEmail(db, email) = {} THEN "authentication failed"
    ELSE IF \E u \in GetUserByEmail(db, email) : u.Password = NoPassword
    THEN "authentication failed"
    ELSE IF \E u \in GetUserByEmail(db, email) : ~Matches(passwordHasher, password, u.Password)
    THEN "authentication failed"
    ELSE IF io = "update fails" THEN "storage error"
    ELSE ""

AuthenticateUserErr(db, email, password, io) ==
    IF io = "lookup fails" THEN "storage error"
    ELSE IF GetUserByEmail(db, email) = {} THEN "authentication failed"
    ELSE IF \E u \in GetUserByEmail(db, email) : u.Password = NoPassword
    THEN "authentication failed"
    ELSE IF \E u \in GetUserByEmail(db, email) : ~Matches(passwordHasher, password, u.Password)
    THEN "authentication failed"
    ELSE ""

\* the handler answers every error of AuthenticateUser in the same way
LoginFailure(err) == Reply("login", 401, "AUTHENTICATION_FAILED", 0, FALSE)

Login(email, password, io) ==
    /\ IF AuthenticateUserErr(users, email, password, io) # ""
       THEN /\ reply' = LoginFailure(AuthenticateUserErr(users, email, password, io))
            /\ UNCHANGED <<users, uuidCounter, store, issued>>
       ELSE \E u \in GetUserByEmail(users, email) :
               /\ uuidCounter + 3 <= MaxUuid
               /\ users' = IF io = "update fails" THEN users
                           ELSE UpdateUser(users, [u EXCEPT !.LastLoginAt = now])
               /\ IssueTokens(u, uuidCounter)
               /\ reply' = TokenReply("login", 200, u.ID, uuidCounter)
               /\ uuidCounter' = uuidCounter + 3
    /\ UNCHANGED <<jwtService, dbUp, media, logged, now, inflight, audit, pending>>

(* GoogleSignIn: VerifyIDToken, Service.CreateGoogleUser, GenerateTokens *)
\* the assertions a client of the account handlers presents
SignIns ==
    {Assertion(TRUE, "accounts.google.com", sub, email, "true") :
        sub \in Subjects, email \in Emails}
    \cup {Assertion(TRUE, "accounts.google.com", "g1", "a@x", "absent")}

GoogleStartBestEffort(a, io) ==
    /\ IF VerifyIDTokenErr(a) # ""
       THEN /\ reply' = Reply("google", 401, "INVALID_GOOGLE_TOKEN", 0, FALSE)
            /\ UNCHANGED <<users, pending, uuidCounter, store, issued>>
       ELSE IF GetUserByGoogleID(users, VerifyIDToken(a).ID) = {}
       THEN /\ BagCardinality(pending) < MaxInflight
            /\ pending' = pending (+) SetToBag({[op |-> "google",
                                                 email |-> VerifyIDToken(a).Email,
                                                 password |-> "",
                                                 sub |-> VerifyIDToken(a).ID]})
            /\ UNCHANGED <<users, reply, uuidCounter, store, issued>>
       ELSE \E u \in GetUserByGoogleID(users, VerifyIDToken(a).ID) :
               /\ uuidCounter + 3 <= MaxUuid
               /\ users' = IF io = "update fails" THEN users
                           ELSE UpdateUser(users, [u EXCEPT !.LastLoginAt = now])
               /\ IssueTokens(u, uuidCounter)
               /\ reply' = TokenReply("google", 200, u.ID, uuidCounter)
               /\ uuidCounter' = uuidCounter + 3
               /\ UNCHANGED pending
    /\ UNCHANGED <<jwtService, dbUp, media, logged, now, inflight, audit>>

GoogleStart(a, io) ==
    /\ IF VerifyIDTokenErr(a) # ""
       THEN /\ reply' = Reply("google", 401, "INVALID_GOOGLE_TOKEN", 0, FALSE)
            /\ UNCHANGED <<users, pending, uuidCounter, store, issued>>
       ELSE IF GetUserByGoogleID(users, VerifyIDToken(a).ID) = {}
       THEN /\ BagCardinality(pending) < MaxInflight
            /\ pending' = pending (+) SetToBag({[op |-> "google",
                                                 email |-> VerifyIDToken(a).Email,
                                                 password |-> "",
                                                 sub |-> VerifyIDToken(a).ID]})
            /\ UNCHANGED <<users, reply, uuidCounter, store, issued>>
       ELSE \E u \in GetUserByGoogleID(users, VerifyIDToken(a).ID) :
               IF io = "update fails"
               THEN /\ reply' = Reply("google", 500, "GOOGLE_USER_CREATION_FAILED", 0, FALSE)
                    /\ UNCHANGED <<users, pending, uuidCounter, store, issued>>
               ELSE /\ uuidCounter + 3 <= MaxUuid
                    /\ users' = UpdateUser(users, [u EXCEPT !.LastLoginAt = now])
                    /\ IssueTokens(u, uuidCounter)
                    /\ reply' = TokenReply("google", 200, u.ID, uuidCounter)
                    /\ uuidCounter' = uuidCounter + 3
                    /\ UNCHANGED pending
    /\ UNCHANGED <<jwtService, dbUp, media, logged, now, inflight, audit>>

GoogleFinish(c) ==
    /\ BagIn(c, pending)
    /\ c.op = "google"
    /\ uuidCounter + 4 <= MaxUuid
    /\ pending' = pending (-) SetToBag({c})
    /\ LET u == User(uuidCounter + 1, c.email, NoPassword, c.sub)
       IN  IF ~CreateUserOk(users, u)
           THEN /\ reply' = Reply("google", 500, "GOOGLE_USER_CREATION_FAILED", 0, FALSE)
                /\ uuidCounter' = uuidCounter + 1
                /\ UNCHANGED <<users, store, issued>>
           ELSE /\ users' = users \cup {u}
                /\ IssueTokens(u, uuidCounter + 1)
                /\ reply' = TokenReply("google", 200, u.ID, uuidCounter + 1)
                /\ uuidCounter' = uuidCounter + 4
    /\ UNCHANGED <<jwtService, dbUp, media, logged, now, inflight, audit>>

\* an operator of the database sets is_active to false; no code of the
\* service writes or reads the column
Deactivate(u) ==
    /\ u \in users
    /\ u.IsActive
    /\ users' = UpdateUser(users, [u EXCEPT !.IsActive = FALSE])
    /\ UNCHANGED <<jwtService, dbUp, media, logged, now, uuidCounter, store, issued, inflight, audit,
                   pending, reply>>

AccountNext ==
    \/ \E email \in Emails, password \in Passwords : RegisterStart(email, password)
    \/ \E c \in BagToSet(pending), salt \in Salts : RegisterFinish(c, salt)
    \/ \E email \in Emails, password \in Passwords, io \in IOOutcomes :
          Login(email, password, io)
    \/ \E a \in SignIns, io \in IOOutcomes : GoogleStart(a, io)
    \/ \E c \in BagToSet(pending) : GoogleFinish(c)
    \/ \E u \in users : Deactivate(u)

AccountSpec == Init /\ [][AccountNext]_vars

(***************************************************************************)
(* The session service next to a users table that changes under it: the    *)
(* users signed up earlier, GenerateTokens is called with the email and the *)
(* roles of the row, and an operator of the database deactivates a user or *)
(* changes the roles (no code of the service writes either column after    *)
(* the insert).                                                            *)
(***************************************************************************)
RoleSets == {DefaultRoles, {"user", "admin"}}

IdentityInit ==
    /\ jwtService = NewJWTService("k1", "k2", AccessTTL, RefreshTTL, "HS256")
    /\ validate(jwtService.accessSecret, jwtService.refreshSecret)
    /\ now = 0
    /\ uuidCounter = 0
    /\ store = {}
    /\ issued = {}
    /\ inflight = EmptyBag
    /\ audit = {}
    /\ logged = {"rotated"}
    /\ users = {User(1, "a@x", NoPassword, "s1")}
    /\ pending = EmptyBag
    /\ reply = NoReply
    /\ NoMedia
    /\ dbUp = TRUE

ChangeRoles(u, roles) ==
    /\ u \in users
    /\ u.Roles # roles
    /\ users' = UpdateUser(users, [u EXCEPT !.Roles = roles])
    /\ UNCHANGED <<jwtService, dbUp, media, logged, now, uuidCounter, store, issued, inflight,
                   audit, pending, reply>>

IdentityNext ==
    \/ \E u \in Users : GenerateTokens(u)
    \/ \E tok \in Presentable : RefreshStart(tok)
    \/ \E c \in BagToSet(inflight) : RefreshFinish(c)
    \/ Tick
    \/ \E u \in users : Deactivate(u)
    \/ \E u \in users, roles \in RoleSets : ChangeRoles(u, roles)

IdentitySpec == IdentityInit /\ [][IdentityNext]_vars

(***************************************************************************)
(* GoogleService.VerifyIDToken on its own, for any assertion a caller may  *)
(* send: the assertion is held in pending while the verifier looks at it,  *)
(* and reply.code holds the error VerifyGoogleIDToken returned for it.     *)
(***************************************************************************)
Issuers == {"accounts.google.com", "https://accounts.google.com", "accounts.example.com"}

\* the payloads idtoken.Validate can hand back, and the tokens it refuses
Assertions ==
    {Assertion(valid, iss, sub, email, ev) :
        valid \in BOOLEAN, iss \in Issuers, sub \in Subjects,
        email \in Emails \cup {"absent"}, ev \in {"true", "false", "absent"}}

VerifierInit ==
    /\ jwtService = NewJWTService("k1", "k2", AccessTTL, RefreshTTL, "HS256")
    /\ validate(jwtService.accessSecret, jwtService.refreshSecret)
    /\ now = 0
    /\ uuidCounter = 0
    /\ store = {}
    /\ issued = {}
    /\ inflight = EmptyBag
    /\ audit = {}
    /\ logged = {}
    /\ NoMedia
    /\ dbUp = TRUE
    /\ users = {}
    /\ \E a \in Assertions : pending = SetToBag({a})
    /\ reply = NoReply

VerifyGoogleIDToken(a) ==
    /\ BagIn(a, pending)
    /\ reply = NoReply
    /\ reply' = [op |-> "verify", status |-> 0, code |-> VerifyIDTokenErr(a),
                 uid |-> 0, tokens |-> FALSE]
    /\ UNCHANGED <<jwtService, dbUp, media, now, uuidCounter, store, issued, inflight, audit,
                   logged, users, pending>>

VerifierNext == \E a \in Assertions : VerifyGoogleIDToken(a)

VerifierSpec == VerifierInit /\ [][VerifierNext]_vars

(***************************************************************************)
(* PasswordHasher on its own: one hasher encodes a password, another, with *)
(* parameters of its own, checks a candidate against the encoded hash.     *)
(* The job is held in pending; reply.code is what Matches returned.        *)
(***************************************************************************)
\* the parameter sets a deployment may configure (argon2.IDKey refuses a
\* time or a thread count of zero)
ParameterSets ==
    {NewPasswordHasher(time, memory, threads) :
        time \in {1, 3}, memory \in {19456, 65536}, threads \in {1, 2}}

HashJob(hasher, verifier, password, candidate, encodedHash) ==
    [op |-> "hash", hasher |-> hasher, verifier |-> verifier, password |-> password,
     candidate |-> candidate, encodedHash |-> encodedHash]

HasherInit ==
    /\ jwtService = NewJWTService("k1", "k2", AccessTTL, RefreshTTL, "HS256")
    /\ validate(jwtService.accessSecret, jwtService.refreshSecret)
    /\ now = 0
    /\ uuidCounter = 0
    /\ store = {}
    /\ issued = {}
    /\ inflight = EmptyBag
    /\ audit = {}
    /\ logged = {}
    /\ NoMedia
    /\ dbUp = TRUE
    /\ users = {}
    /\ \E hasher \in ParameterSets, verifier \in ParameterSets,
          password \in Passwords, candidate \in Passwords :
          pending = SetToBag({HashJob(hasher, verifier, password, candidate, NoPassword)})
    /\ reply = NoReply

\* hasher.Hash(password)
HashPassword(c, salt) ==
    /\ BagIn(c, pending)
    /\ c.encodedHash = NoPassword
    /\ pending' = SetToBag({[c EXCEPT !.encodedHash = Hash(c.hasher, c.password, salt)]})
    /\ UNCHANGED <<jwtService, dbUp, media, now, uuidCounter, store, issued, inflight, audit,
                   logged, users, reply>>

\* verifier.Matches(candidate, encodedHash)
MatchPassword(c) ==
    /\ BagIn(c, pending)
    /\ c.encodedHash # NoPassword
    /\ reply = NoReply
    /\ reply' = Reply("matches", 0,
                      IF MatchesErr(c.encodedHash) # "" THEN MatchesErr(c.encodedHash)
                      ELSE IF Matches(c.verifier, c.candidate, c.encodedHash) THEN "true"
                      ELSE "false", 0, FALSE)
    /\ UNCHANGED <<jwtService, dbUp, media, now, uuidCounter, store, issued, inflight, audit,
                   logged, users, pending>>

HasherNext ==
    \/ \E c \in BagToSet(pending), salt \in Salts : HashPassword(c, salt)
    \/ \E c \in BagToSet(pending) : MatchPassword(c)

HasherSpec == HasherInit /\ [][HasherNext]_vars

(***************************************************************************)
(* The token codec on its own, under every configuration validate()        *)
(* accepts and for any token a caller may present: GenerateTokenPair, the  *)
(* JWTAuth middleware (ExtractTokenFromHeader, VerifyAccessToken) and      *)
(* VerifyRefreshToken.  A request JWTAuth admits is in flight until its    *)
(* handler returns.                                                        *)
(***************************************************************************)
SigningKeys == (Secrets \ {""}) \cup {"guess"}

\* tokens made outside the service: any type, any key, any algorithm
Forged ==
    {Token(typ, key, alg, 0, 1, 0, MaxTime + 1) :
        typ \in {TokenTypeAccess, TokenTypeRefresh}, key \in SigningKeys,
        alg \in {"HS256", "none"}}

\* an Authorization header: "<scheme> <token>", a bare token (scheme ""), or
\* no header at all (scheme "absent")
Header(scheme, tok) == [scheme |-> scheme, tok |-> tok]

Schemes == {"Bearer", "bearer", "Basic", "", "absent"}

ToLower(scheme) == IF scheme = "Bearer" THEN "bearer" ELSE scheme

\* a signed token has exactly two dots; the junk string has none
Dots(tok) == IF tok.alg \in {"malformed", "absent"} THEN 0 ELSE 2

\* A header value is a sequence of atoms: the words "Bearer", "bearer" and
\* "Basic", the letter "x", the dot, the space and the tab.
Whitespace == {" ", "\t"}

\* strings.ToLower
Lower(s) == [i \in DOMAIN s |-> ToLower(s[i])]

\* strings.Contains(s, a) for a one-atom a
Contains(s, a) == \E i \in DOMAIN s : s[i] = a

\* strings.Count(s, a) for a one-atom a
Count(s, a) == Cardinality({i \in DOMAIN s : s[i] = a})

\* the length of the first word of s, which does not start with white space
WordLen(s) ==
    IF \E i \in DOMAIN s : s[i] \in Whitespace
    THEN (CHOOSE i \in DOMAIN s :
            s[i] \in Whitespace /\ \A j \in 1..(i - 1) : s[j] \notin Whitespace) - 1
    ELSE Len(s)

\* strings.Fields: the words of s, split around runs of white space
RECURSIVE Fields(_)
Fields(s) ==
    IF s = <<>> THEN <<>>
    ELSE IF Head(s) \in Whitespace THEN Fields(Tail(s))
    ELSE <<SubSeq(s, 1, WordLen(s))>> \o Fields(SubSeq(s, WordLen(s) + 1, Len(s)))

ExtractTokenFromHeader(authHeader) ==
    LET parts == Fields(authHeader)
    IN  IF Len(parts) = 2 /\ Lower(parts[1]) = <<"bearer">> THEN parts[2]
        ELSE IF ~Contains(authHeader, " ") /\ Count(authHeader, ".") = 2 THEN authHeader
        ELSE <<>>

\* SignedString: header.payload.signature; the junk string is one word
TokenText(tok) == IF Dots(tok) = 2 THEN <<"x", ".", "x", ".", "x">> ELSE <<"x">>

\* the Authorization header of a request
HeaderText(h) ==
    IF h.scheme = "absent" THEN <<>>
    ELSE IF h.scheme = "" THEN TokenText(h.tok)
    ELSE <<h.scheme, " ">> \o TokenText(h.tok)

\* the token JWTAuth goes on with
ExtractedToken(h) ==
    IF ExtractTokenFromHeader(HeaderText(h)) = <<>> THEN NoToken ELSE h.tok

JWTAuthCode(h) ==
    IF HeaderText(h) = <<>> THEN "MISSING_TOKEN"
    ELSE IF ExtractedToken(h) = NoToken THEN "INVALID_TOKEN_FORMAT"
    ELSE IF ~VerifyAccessToken(jwtService, ExtractedToken(h), now) THEN "INVALID_TOKEN"
    ELSE "admitted"

CodecInit ==
    /\ \E acc \in Secrets, ref \in Secrets :
          /\ validate(acc, ref)
          /\ jwtService = NewJWTService(acc, ref, AccessTTL, RefreshTTL, "HS256")
    /\ now = 0
    /\ uuidCounter = 0
    /\ store = {}
    /\ issued = {}
    /\ inflight = EmptyBag
    /\ audit = {}
    /\ logged = {}
    /\ NoAccounts
    /\ NoMedia
    /\ dbUp = TRUE

CodecGenerate(u) ==
    /\ NextUser(u)
    /\ uuidCounter + 3 <= MaxUuid
    /\ LET pair == GenerateTokenPair(jwtService, u, EmailOf(Identity(u)),
                                     Identity(u).Roles, now, uuidCounter)
       IN  issued' = issued \cup {pair.access, pair.refresh}
    /\ uuidCounter' = uuidCounter + 3
    /\ UNCHANGED <<jwtService, dbUp, media, logged, accounts, now, store, inflight, audit>>

\* the record slot of a request that read no record
NoRecord == RefreshToken(0, 0, 0, 0, 0)

JWTAuth(h) ==
    /\ h.tok \in issued \cup Forged \cup {Malformed}
    /\ IF JWTAuthCode(h) = "admitted"
       THEN /\ BagCardinality(inflight) < MaxInflight
            /\ inflight' = inflight (+) SetToBag({Call(ExtractedToken(h), NoRecord, {})})
       ELSE UNCHANGED inflight
    /\ UNCHANGED <<jwtService, dbUp, media, logged, accounts, now, uuidCounter, store, issued, audit>>

\* the handler behind the middleware returns
Served(c) ==
    /\ BagIn(c, inflight)
    /\ inflight' = inflight (-) SetToBag({c})
    /\ UNCHANGED <<jwtService, dbUp, media, logged, accounts, now, uuidCounter, store, issued, audit>>

\* RefreshTokens and RevokeToken with a token that has no record: whatever
\* VerifyRefreshToken says, nothing is written
CodecVerifyRefresh(tok) ==
    /\ tok \in issued \cup Forged \cup {Malformed}
    /\ RefreshLookupErr(tok) # ""
    /\ UNCHANGED vars

CodecNext ==
    \/ \E u \in Users : CodecGenerate(u)
    \/ \E scheme \in Schemes, tok \in issued \cup Forged \cup {Malformed} :
          JWTAuth(Header(scheme, tok))
    \/ \E c \in BagToSet(inflight) : Served(c)
    \/ \E tok \in issued \cup Forged \cup {Malformed} : CodecVerifyRefresh(tok)
    \/ Tick

CodecSpec == CodecInit /\ [][CodecNext]_vars

(***************************************************************************)
(* ExtractTokenFromHeader on its own, for any Authorization header a       *)
(* client may send.  The server has trimmed the white space around the     *)
(* value; the header is held in pending while JWTAuth looks at it.         *)
(***************************************************************************)
MaxHeaderLen == 4

HeaderAtoms == {"Bearer", "bearer", "x", ".", " ", "\t"}

Headers ==
    {h \in UNION {[1..n -> HeaderAtoms] : n \in 0..MaxHeaderLen} :
        h # <<>> => (h[1] \notin Whitespace /\ h[Len(h)] \notin Whitespace)}

HeaderInit ==
    /\ jwtService = NewJWTService("k1", "k2", AccessTTL, RefreshTTL, "HS256")
    /\ validate(jwtService.accessSecret, jwtService.refreshSecret)
    /\ now = 0
    /\ uuidCounter = 0
    /\ store = {}
    /\ issued = {}
    /\ inflight = EmptyBag
    /\ audit = {}
    /\ logged = {}
    /\ NoMedia
    /\ dbUp = TRUE
    /\ users = {}
    /\ \E h \in Headers : pending = SetToBag({[op |-> "request", authHeader |-> h]})
    /\ reply = NoReply

\* JWTAuth up to the call of VerifyAccessToken
JWTAuthExtract(c) ==
    /\ BagIn(c, pending)
    /\ reply = NoReply
    /\ reply' = Reply("extract", 0,
                      IF c.authHeader = <<>> THEN "MISSING_TOKEN"
                      ELSE IF ExtractTokenFromHeader(c.authHeader) = <<>>
                      THEN "INVALID_TOKEN_FORMAT"
                      ELSE "extracted", 0, FALSE)
    /\ UNCHANGED <<jwtService, dbUp, media, now, uuidCounter, store, issued, inflight, audit,
                   logged, users, pending>>

HeaderNext == \E c \in BagToSet(pending) : JWTAuthExtract(c)

HeaderSpec == HeaderInit /\ [][HeaderNext]_vars

(***************************************************************************)
(* The repository on its own, called with arbitrary arguments.  The log    *)
(* keeps the outcome of each Create.                                       *)
(***************************************************************************)
NumTokenIds == 2
MaxCreates == 3

TokenIds == 1..NumTokenIds

StoreCreate(uid, jti, exp) ==
    /\ uuidCounter < MaxCreates
    /\ uuidCounter' = uuidCounter + 1
    /\ LET rt == RefreshToken(uuidCounter + 1, uid, jti, now, exp)
       IN  /\ store' = Create(store, rt)
           /\ audit' = audit \cup Log({Entry(IF CreateOk(store, rt) THEN "created"
                                               ELSE "duplicate", jti, 0)})
    /\ UNCHANGED <<jwtService, dbUp, media, logged, accounts, now, issued, inflight>>

StoreRevokeByTokenID(jti) ==
    /\ store' = RevokeByTokenID(store, jti)
    /\ UNCHANGED <<jwtService, dbUp, media, logged, accounts, now, uuidCounter, issued, inflight, audit>>

StoreRevokeAllUserTokens(uid) ==
    /\ store' = RepoRevokeAllUserTokens(store, uid)
    /\ UNCHANGED <<jwtService, dbUp, media, logged, accounts, now, uuidCounter, issued, inflight, audit>>

StoreNext ==
    \/ \E uid \in Users, jti \in TokenIds, exp \in {now + RefreshTTL} :
          StoreCreate(uid, jti, exp)
    \/ \E jti \in TokenIds : StoreRevokeByTokenID(jti)
    \/ \E uid \in Users : StoreRevokeAllUserTokens(uid)
    \/ CleanupExpiredTokens
    \/ Tick

StoreSpec == InitLogging({"created", "duplicate"}) /\ [][StoreNext]_vars

(***************************************************************************)
(* The library: library.Service.AddFavorite in two steps, the lookup of    *)
(* the track among the user's favorites and then the insert of the row,    *)
(* and library.Service.RemoveFavorite.  A call between its two steps is    *)
(* held in pending; reply is what the last call returned.                  *)
(***************************************************************************)
MaxFavorites == 3

\* the user ids a request may carry: 0 is a string uuid.Parse rejects
UserIDStrs == 0..NumUsers

\* the tracks a request may name
TrackData ==
    {[Provider |-> p, ProviderTrackID |-> t] : p \in {"itunes", "spotify"}, t \in {"t1"}}

Favorite(id, userID, data) ==
    [ID |-> id, UserID |-> userID, Provider |-> data.Provider,
     ProviderTrackID |-> data.ProviderTrackID]

\* the favorites table has a primary key and an index on user_id, no
\* unique index
FindFavoriteByTrackID(db, userID, provider, providerTrackID) ==
    {f \in db : /\ f.UserID = userID
                /\ f.Provider = provider
                /\ f.ProviderTrackID = providerTrackID}

RepoRemoveFavorite(db, userID, favoriteID) ==
    {f \in db : ~(f.UserID = userID /\ f.ID = favoriteID)}

ErrFavoriteExists == "track is already in favorites"

\* what a statement sent to the database may do
StorageOutcomes == {"ok", "fails"}

\* the error AddFavorite returns before the insert, "" when it goes on
AddFavoriteLookupErr(db, userIDStr, data, io) ==
    IF userIDStr = 0 THEN "invalid user ID format"
    ELSE IF io = "fails" THEN "storage error"
    ELSE IF FindFavoriteByTrackID(db, userIDStr, data.Provider, data.ProviderTrackID) # {}
    THEN ErrFavoriteExists
    ELSE ""

AddFavoriteStart(userIDStr, data, io) ==
    LET err == AddFavoriteLookupErr(favorites, userIDStr, data, io) IN
    /\ IF err # ""
       THEN /\ reply' = Reply("addFavorite", 0, err, userIDStr, FALSE)
            /\ UNCHANGED pending
       ELSE /\ BagCardinality(pending) < MaxInflight
            /\ pending' = pending (+) SetToBag({[op |-> "addFavorite",
                                                 userID |-> userIDStr, data |-> data]})
            /\ UNCHANGED reply
    /\ UNCHANGED <<jwtService, dbUp, logged, now, uuidCounter, store, issued, inflight, audit,
                   users, media>>

AddFavoriteFinish(c, io) ==
    LET favorite == Favorite(uuidCounter + 1, c.userID, c.data) IN
    /\ BagIn(c, pending)
    /\ c.op = "addFavorite"
    /\ uuidCounter < MaxFavorites
    /\ pending' = pending (-) SetToBag({c})
    /\ uuidCounter' = uuidCounter + 1
    /\ IF io = "ok"
       THEN /\ favorites' = favorites \cup {favorite}
            /\ reply' = Reply("addFavorite", 0, "", c.userID, FALSE)
       ELSE /\ UNCHANGED favorites
            /\ reply' = Reply("addFavorite", 0, "storage error", c.userID, FALSE)
    /\ UNCHANGED <<jwtService, dbUp, logged, now, store, issued, inflight, audit, users,
                   tracks, search>>

RemoveFavorite(userIDStr, favoriteID, io) ==
    /\ IF userIDStr = 0
       THEN /\ reply' = Reply("removeFavorite", 0, "invalid user ID format", userIDStr, FALSE)
            /\ UNCHANGED favorites
       ELSE IF io = "fails"
       THEN /\ reply' = Reply("removeFavorite", 0, "storage error", userIDStr, FALSE)
            /\ UNCHANGED favorites
       ELSE /\ favorites' = RepoRemoveFavorite(favorites, userIDStr, favoriteID)
            /\ reply' = Reply("removeFavorite", 0, "", userIDStr, FALSE)
    /\ UNCHANGED <<jwtService, dbUp, logged, now, uuidCounter, store, issued, inflight, audit,
                   users, pending, tracks, search>>

LibraryNext ==
    \/ \E u \in UserIDStrs, d \in TrackData, io \in StorageOutcomes : AddFavoriteStart(u, d, io)
    \/ \E c \in BagToSet(pending), io \in StorageOutcomes : AddFavoriteFinish(c, io)
    \/ \E u \in UserIDStrs, id \in 1..MaxFavorites, io \in StorageOutcomes :
          RemoveFavorite(u, id, io)

LibrarySpec == InitLogging({}) /\ [][LibraryNext]_vars

(***************************************************************************)
(* ProviderRegistry.SearchAllProviders: the calling goroutine starts one   *)
(* goroutine per enabled provider, then receives len(providers) results    *)
(* from resultChan.  search holds the locals of the call; a goroutine is   *)
(* "searching" inside SearchTracks, "sending" when it holds its result,    *)
(* and "exited" once the result is in the channel.                         *)
(***************************************************************************)
NumProviders == 3

\* the names under which providers may be registered
ProviderNames == 1..NumProviders

CapacityUnbuffered(providers) == 0

\* make(chan result, len(providers))
Capacity(providers) == Cardinality(providers)

\* the providers the loop that starts the goroutines has not reached yet
Unstarted == search.providers \ {g.provider : g \in search.goroutines}

\* GetEnabledProviders and the four makes; a call begins when none is
\* under way
SearchStart(providers) ==
    /\ search.pc \in {"idle", "done"}
    /\ search' = [NoSearch EXCEPT !.pc = "running", !.providers = providers]
    /\ UNCHANGED <<jwtService, dbUp, now, uuidCounter, store, issued, inflight, audit, logged,
                   accounts, favorites, tracks>>

\* go func(p MusicProvider) {...}(provider)
Spawn(p) ==
    /\ search.pc = "running"
    /\ p \in Unstarted
    /\ search' = [search EXCEPT !.goroutines =
                     @ \cup {[provider |-> p, pc |-> "searching", err |-> FALSE]}]
    /\ UNCHANGED <<jwtService, dbUp, now, uuidCounter, store, issued, inflight, audit, logged,
                   accounts, favorites, tracks>>

\* p.SearchTracks returns in the goroutine g, with or without an error
SearchTracks(g, err) ==
    /\ g \in search.goroutines
    /\ g.pc = "searching"
    /\ search' = [search EXCEPT !.goroutines =
                     (@ \ {g}) \cup {[g EXCEPT !.pc = "sending", !.err = err]}]
    /\ UNCHANGED <<jwtService, dbUp, now, uuidCounter, store, issued, inflight, audit, logged,
                   accounts, favorites, tracks>>

\* resultChan <- result{...}: possible while the buffer has room
Send(g) ==
    /\ g \in search.goroutines
    /\ g.pc = "sending"
    /\ Len(search.resultChan) < Capacity(search.providers)
    /\ search' = [search EXCEPT
                     !.goroutines = (@ \ {g}) \cup {[g EXCEPT !.pc = "exited"]},
                     !.resultChan = Append(@, [provider |-> g.provider, err |-> g.err])]
    /\ UNCHANGED <<jwtService, dbUp, now, uuidCounter, store, issued, inflight, audit, logged,
                   accounts, favorites, tracks>>

\* one round of the collecting loop: res := <-resultChan
Receive ==
    /\ search.pc = "running"
    /\ Unstarted = {}
    /\ search.i < Cardinality(search.providers)
    /\ search.resultChan # <<>>
    /\ LET res == Head(search.resultChan) IN
       search' = IF res.err
                 THEN [search EXCEPT !.resultChan = Tail(@), !.i = @ + 1,
                                     !.errors = Append(@, res.provider)]
                 ELSE [search EXCEPT !.resultChan = Tail(@), !.i = @ + 1,
                                     !.results = @ \cup {res.provider},
                                     !.pageInfos = @ \cup {res.provider}]
    /\ UNCHANGED <<jwtService, dbUp, now, uuidCounter, store, issued, inflight, audit, logged,
                   accounts, favorites, tracks>>

\* return results, pageInfos, errors
SearchReturn ==
    /\ search.pc = "running"
    /\ Unstarted = {}
    /\ search.i = Cardinality(search.providers)
    /\ search' = [search EXCEPT !.pc = "done"]
    /\ UNCHANGED <<jwtService, dbUp, now, uuidCounter, store, issued, inflight, audit, logged,
                   accounts, favorites, tracks>>

SearchNext ==
    \/ \E providers \in SUBSET ProviderNames : SearchStart(providers)
    \/ \E p \in ProviderNames : Spawn(p)
    \/ \E g \in search.goroutines, err \in BOOLEAN : SearchTracks(g, err)
    \/ \E g \in search.goroutines : Send(g)
    \/ Receive
    \/ SearchReturn

SearchSpec == InitLogging({}) /\ [][SearchNext]_vars

\* the scheduler runs every goroutine that can take a step, and every
\* provider search returns
SearchFairSpec ==
    /\ InitLogging({})
    /\ [][SearchNext]_vars
    /\ WF_vars(\E p \in ProviderNames : Spawn(p))
    /\ WF_vars(\E g \in search.goroutines, err \in BOOLEAN : SearchTracks(g, err))
    /\ WF_vars(\E g \in search.goroutines : Send(g))
    /\ WF_vars(Receive)
    /\ WF_vars(SearchReturn)

(***************************************************************************)
(* Playlists: playlist.Service.AddTrackToPlaylist in two steps, the read   *)
(* of the highest position and then the insert of the track, and           *)
(* RemoveTrackFromPlaylist.  A call between its two steps is held in       *)
(* pending with the position it read.                                      *)
(***************************************************************************)
MaxTracks == 3

\* the playlists table: one playlist, of user 1
Playlists == {[ID |-> 1, UserID |-> 1]}

PlaylistTrack(id, playlistID, position) ==
    [ID |-> id, PlaylistID |-> playlistID, Position |-> position]

\* SELECT COALESCE(MAX(position), 0) WHERE playlist_id = ?
GetMaxPosition(db, playlistID) ==
    LET positions == {t.Position : t \in {x \in db : x.PlaylistID = playlistID}}
    IN  IF positions = {} THEN 0
        ELSE CHOOSE m \in positions : \A p \in positions : p <= m

\* the error of getAndVerifyOwner, "" when the caller owns the playlist; 0
\* is a string uuid.Parse rejects
GetAndVerifyOwnerErr(playlistIDStr, userIDStr, io) ==
    IF userIDStr = 0 THEN "invalid user ID format"
    ELSE IF playlistIDStr = 0 THEN "invalid playlist ID format"
    ELSE IF io = "fails" THEN "storage error"
    ELSE IF \A p \in Playlists : p.ID # playlistIDStr THEN "playlist not found"
    ELSE IF \E p \in Playlists : p.ID = playlistIDStr /\ p.UserID # userIDStr
    THEN "user is not the owner of the playlist"
    ELSE ""

AddTrackStart(playlistIDStr, userIDStr, io, ioMax) ==
    LET err == IF GetAndVerifyOwnerErr(playlistIDStr, userIDStr, io) # ""
               THEN GetAndVerifyOwnerErr(playlistIDStr, userIDStr, io)
               ELSE IF ioMax = "fails" THEN "storage error" ELSE ""
    IN  /\ IF err # ""
           THEN /\ reply' = Reply("addTrack", 0, err, userIDStr, FALSE)
                /\ UNCHANGED pending
           ELSE /\ BagCardinality(pending) < MaxInflight
                /\ pending' = pending (+) SetToBag({[op |-> "addTrack",
                                  playlistID |-> playlistIDStr, userID |-> userIDStr,
                                  maxPos |-> GetMaxPosition(tracks, playlistIDStr)]})
                /\ UNCHANGED reply
        /\ UNCHANGED <<jwtService, dbUp, logged, now, uuidCounter, store, issued, inflight,
                       audit, users, media>>

AddTrackFinish(c, io) ==
    LET newTrack == PlaylistTrack(uuidCounter + 1, c.playlistID, c.maxPos + 1) IN
    /\ BagIn(c, pending)
    /\ c.op = "addTrack"
    /\ uuidCounter < MaxTracks
    /\ pending' = pending (-) SetToBag({c})
    /\ uuidCounter' = uuidCounter + 1
    /\ IF io = "ok"
       THEN /\ tracks' = tracks \cup {newTrack}
            /\ reply' = Reply("addTrack", 0, "", c.userID, FALSE)
       ELSE /\ UNCHANGED tracks
            /\ reply' = Reply("addTrack", 0, "storage error", c.userID, FALSE)
    /\ UNCHANGED <<jwtService, dbUp, logged, now, store, issued, inflight, audit, users,
                   favorites, search>>

RemoveTrackFromPlaylist(playlistIDStr, userIDStr, trackIDStr, io, ioRemove) ==
    LET err == IF GetAndVerifyOwnerErr(playlistIDStr, userIDStr, io) # ""
               THEN GetAndVerifyOwnerErr(playlistIDStr, userIDStr, io)
               ELSE IF trackIDStr = 0 THEN "invalid track ID format"
               ELSE IF ioRemove = "fails" THEN "storage error" ELSE ""
    IN  /\ reply' = Reply("removeTrack", 0, err, userIDStr, FALSE)
        /\ tracks' = IF err # "" THEN tracks
                     ELSE {t \in tracks : ~(t.PlaylistID = playlistIDStr /\ t.ID = trackIDStr)}
        /\ UNCHANGED <<jwtService, dbUp, logged, now, uuidCounter, store, issued, inflight,
                       audit, users, pending, favorites, search>>

PlaylistNext ==
    \/ \E p \in 0..2, u \in UserIDStrs, io \in StorageOutcomes, ioMax \in StorageOutcomes :
          AddTrackStart(p, u, io, ioMax)
    \/ \E c \in BagToSet(pending), io \in StorageOutcomes : AddTrackFinish(c, io)
    \/ \E p \in 0..2, u \in UserIDStrs, t \in 0..MaxTracks, io \in StorageOutcomes,
          ioRemove \in StorageOutcomes : RemoveTrackFromPlaylist(p, u, t, io, ioRemove)

PlaylistSpec == InitLogging({}) /\ [][PlaylistNext]_vars

(***************************************************************************)
(* Properties.                                                             *)
(***************************************************************************)
RefreshRecords == {t \in issued : t.typ = TokenTypeRefresh}

Rotations == {e \in audit : e.kind = "rotated"}

\* the step in which the in-flight call c returns a new pair
Succeeded(c) ==
    /\ BagIn(c, inflight)
    /\ inflight' = inflight (-) SetToBag({c})
    /\ uuidCounter' # uuidCounter
    /\ store' # store

\* a call made now with tok, run to its end without interruption, succeeds
WouldRefresh(tok) ==
    /\ RefreshLookupErr(tok) = ""
    /\ \A rt \in GetByTokenID(store, tok.jti) : RefreshIssueErr(Call(tok, rt, {})) = ""

\* C1: once a refresh of T0 has returned a pair with T1, no RefreshTokens call
\* that begins afterwards with T0 returns a pair, and a call with T1 succeeds
\* while T1 is unexpired and its record is neither revoked nor rotated.
C1_RotationInvalidatesPredecessor ==
    /\ [][\A c \in BagToSet(inflight) : Succeeded(c) => "rotated" \notin c.after]_vars
    /\ [](\A e \in Rotations : \A t \in RefreshRecords :
            (t.jti = e.by /\ now < t.exp /\ After(t.jti) = {}
               /\ \E r \in store : r.TokenID = t.jti /\ ~r.Revoked)
            => WouldRefresh(t))

\* C2: for one refresh-token id, at most one RefreshTokens call ever succeeds.
C2_AtMostOneRotation ==
    \A j \in {e.jti : e \in Rotations} :
        Cardinality({e \in Rotations : e.jti = j}) <= 1

\* C3: whenever the successor record of a rotation is in the table, the
\* record of the presented token is stored as revoked.
C3_FailClosedRotation ==
    \A e \in Rotations :
        (\E r \in store : r.TokenID = e.by)
        => \A r \in store : r.TokenID = e.jti => r.Revoked

\* C4: a row that is revoked stays revoked, and so never valid again, for as
\* long as it is in the table, whatever operation runs.
C4_NoUnrevoke ==
    [][\A r \in store : r.Revoked =>
          \A r2 \in store' : r2.ID = r.ID => (r2.Revoked /\ ~IsValid(r2, now'))]_vars

C4_Witness ==
    \E r \in store :
        /\ r.Revoked
        /\ r.ExpiresAt <= now
        /\ \E r2 \in store : r2.ID > r.ID /\ r2.UserID = r.UserID /\ r2.Revoked
        /\ \E r2 \in store : r2.ID > r.ID /\ "rotated" \in After(r2.TokenID)

\* the step in which a revoke-all for user u takes effect
RevokeAllStep(u) ==
    \E e \in audit' \ audit :
        e.kind = "revokeAll" /\ \E t \in issued : t.jti = e.jti /\ t.uid = u

\* C5: no RefreshTokens call that begins after a revoke-all for the owner of
\* its token (the token having been issued before it) returns a pair, and a
\* revoke-all for u leaves every row of every other user as it was.
C5_RevokeAllOnlyThatUser ==
    /\ [][\A c \in BagToSet(inflight) : Succeeded(c) => "revokeAll" \notin c.after]_vars
    /\ [][\A u \in Users : RevokeAllStep(u) =>
            \A r \in store : r.UserID # u => r \in store']_vars

C5_Witness ==
    \E c \in BagToSet(inflight) :
        /\ "revokeAll" \in c.after
        /\ c.storedToken.Revoked
        /\ \E r \in store : r.UserID # c.tok.uid /\ IsValid(r, now)
                            /\ After(r.TokenID) = {}

\* C6: no RefreshTokens call that begins after a logout with its token
\* returns a pair.
C6_LogoutRevokes ==
    [][\A c \in BagToSet(inflight) : Succeeded(c) => "logout" \notin c.after]_vars

C6_Witness ==
    \E c \in BagToSet(inflight) :
        /\ c.after = {"logout"}
        /\ c.storedToken.Revoked
        /\ now < c.tok.exp

\* C7: the response of Logout is the same success acknowledgement for every
\* token a request can carry, whatever RevokeToken made of it.
C7_LogoutSameResponse ==
    \A t1 \in Presentable, t2 \in Presentable :
        /\ LogoutResponse(RevokeTokenErr(t1)) = LogoutResponse(RevokeTokenErr(t2))
        /\ LogoutResponse(RevokeTokenErr(t1)).status = 200

C7_Witness ==
    /\ \E t \in RefreshRecords :
          RevokeTokenErr(t) = "" /\ \E r \in GetByTokenID(store, t.jti) : ~r.Revoked
    /\ \E t \in RefreshRecords :
          RevokeTokenErr(t) = "" /\ \E r \in GetByTokenID(store, t.jti) : r.Revoked
    /\ \E t \in RefreshRecords : RevokeTokenErr(t) # "" /\ GetByTokenID(store, t.jti) = {}
    /\ \E t \in Presentable : t.typ = TokenTypeAccess

\* C8: no refresh token made by GenerateTokenPair passes VerifyAccessToken,
\* no access token made by it passes VerifyRefreshToken, and JWTAuth admits
\* no request whose credential is a refresh token, under any header form.
C8_TokenTypeIsolation ==
    /\ \A t \in issued :
          /\ t.typ = TokenTypeRefresh => ~VerifyAccessToken(jwtService, t, now)
          /\ t.typ = TokenTypeAccess => ~VerifyRefreshToken(jwtService, t, now)
          /\ t.typ = TokenTypeRefresh =>
                \A scheme \in Schemes : JWTAuthCode(Header(scheme, t)) # "admitted"
    /\ \A c \in BagToSet(inflight) : c.tok.typ = TokenTypeAccess

\* both secrets are the same, so that only the type claim tells the two
\* kinds apart; a live refresh token is in a client's hands, and a request
\* with the access token of the same pair has been admitted
C8_Witness ==
    /\ jwtService.accessSecret = jwtService.refreshSecret
    /\ \E t \in issued, a \in issued :
          /\ t.typ = TokenTypeRefresh /\ now < t.exp
          /\ VerifyRefreshToken(jwtService, t, now)
          /\ a.typ = TokenTypeAccess /\ a.iat = t.iat /\ a.uid = t.uid /\ a.jti + 1 = t.jti
          /\ BagIn(Call(a, NoRecord, {}), inflight)

\* C9: under every accepted configuration, a token signed with the access
\* secret fails VerifyRefreshToken and a token signed with the refresh
\* secret fails VerifyAccessToken, whatever its type claim.
C9_KeySeparation ==
    \A t \in issued \cup Forged :
        /\ t.key = jwtService.accessSecret => ~VerifyRefreshToken(jwtService, t, now)
        /\ t.key = jwtService.refreshSecret => ~VerifyAccessToken(jwtService, t, now)

\* C10: no two rows share a token id; a Create with the token id of a row
\* in the table is rejected and leaves the table as it was, and a row is
\* only ever inserted under a token id no row had.
UniqueTokenIds == \A r1 \in store, r2 \in store : r1.TokenID = r2.TokenID => r1 = r2

C10_TokenIdUnique ==
    /\ []UniqueTokenIds
    /\ [][\A e \in audit' \ audit : e.kind = "duplicate" => store' = store]_vars
    /\ [][\A r \in store' : (\A r0 \in store : r0.ID # r.ID) =>
             \A r0 \in store : r0.TokenID # r.TokenID]_vars

\* a Create was rejected as a duplicate while the first row is still there,
\* and other Creates went through
C10_Witness ==
    /\ \E e \in audit : e.kind = "duplicate" /\ \E r \in store : r.TokenID = e.jti
    /\ Cardinality(store) = NumTokenIds

\* C11: every row of the table has the expiry of the signed refresh token
\* that carries its token id, and that token was handed out.
C11_ClaimsRecordAgreement ==
    \A r \in store :
        /\ \E t \in RefreshRecords : t.jti = r.TokenID
        /\ \A t \in RefreshRecords : t.jti = r.TokenID => r.ExpiresAt = t.exp

\* a row made by GenerateTokens and a row made later by RefreshTokens, with
\* different expiries
C11_Witness ==
    \E r1 \in store, r2 \in store :
        /\ r1.ExpiresAt < r2.ExpiresAt
        /\ \A e \in Rotations : e.by # r1.TokenID
        /\ \E e \in Rotations : e.by = r2.TokenID
        /\ \E t \in RefreshRecords : t.jti = r2.TokenID /\ t.exp = r2.ExpiresAt

\* C12: a verified token without a row gets "refresh token not found"; a
\* verified token with a row passes the lookup whatever the row's revoked
\* flag and expiry are; and a call that holds a row fails with "refresh token
\* is revoked or expired" exactly when the row is revoked or its expires_at
\* is not after now, and then writes nothing.
C12_RefreshFailureClassification ==
    /\ [](\A tok \in Presentable : VerifyRefreshToken(jwtService, tok, now) =>
            /\ (\A r \in store : r.TokenID # tok.jti)
                  => RefreshLookupErr(tok) = "refresh token not found"
            /\ (\E r \in store : r.TokenID = tok.jti)
                  => /\ RefreshLookupErr(tok) = ""
                     /\ GetByTokenID(store, tok.jti) = {r \in store : r.TokenID = tok.jti})
    /\ [](\A c \in BagToSet(inflight) :
            (RefreshIssueErr(c) = "refresh token is revoked or expired")
               <=> (c.storedToken.Revoked \/ ~(now < c.storedToken.ExpiresAt)))
    /\ [][\A c \in BagToSet(inflight) :
            (c.storedToken.Revoked \/ ~(now < c.storedToken.ExpiresAt)) => ~Succeeded(c)]_vars

\* a verified token has no row, one call holds a revoked row, and another
\* holds an unrevoked row that has expired since it was read
C12_Witness ==
    /\ VerifyRefreshToken(jwtService, Orphan, now)
    /\ Orphan \in issued
    /\ GetByTokenID(store, Orphan.jti) = {}
    /\ \E c \in BagToSet(inflight) : c.storedToken.Revoked
    /\ \E c \in BagToSet(inflight) :
          ~c.storedToken.Revoked /\ ~(now < c.storedToken.ExpiresAt)

\* the two kinds of failed password login that C13 compares
WrongPassword(email, password) ==
    \E u \in GetUserByEmail(users, email) :
        u.Password # NoPassword /\ ~Matches(passwordHasher, password, u.Password)

NoIdentity(email) == GetUserByEmail(users, email) = {}

\* C13: a login with a wrong password for an existing email and a login with
\* an email no user has both fail, with one and the same response, and a
\* failed login writes no refresh-token row and hands out no token.
C13_LoginParity ==
    /\ [](\A e1 \in Emails, e2 \in Emails, p1 \in Passwords, p2 \in Passwords :
            (WrongPassword(e1, p1) /\ NoIdentity(e2)) =>
               /\ AuthenticateUserErr(users, e1, p1, "ok") # ""
               /\ AuthenticateUserErr(users, e2, p2, "ok") # ""
               /\ LoginFailure(AuthenticateUserErr(users, e1, p1, "ok"))
                    = LoginFailure(AuthenticateUserErr(users, e2, p2, "ok")))
    /\ [][(reply' # reply /\ reply'.op = "login" /\ reply'.status # 200)
            => (store' = store /\ issued' = issued /\ ~reply'.tokens)]_vars

\* a login has just failed while one email has a password user and the
\* other has no user
C13_Witness ==
    /\ reply = LoginFailure("authentication failed")
    /\ \E e1 \in Emails, e2 \in Emails, p \in Passwords :
          WrongPassword(e1, p) /\ NoIdentity(e2)
    /\ store # {}

\* the user looked up by email is absent, inactive, or has no password hash
NoLogin(email) ==
    \/ GetUserByEmail(users, email) = {}
    \/ \E u \in GetUserByEmail(users, email) : ~u.IsActive \/ u.Password = NoPassword

\* C14: a password login for an email whose user is absent, inactive or
\* without a password hash fails with "authentication failed" whatever the
\* password is, and a password login that hands out tokens is for an active
\* user with a password hash.
C14_LoginRequiresActivePasswordUser ==
    /\ [](\A email \in Emails, password \in Passwords :
            NoLogin(email) =>
               AuthenticateUserErr(users, email, password, "ok") = "authentication failed")
    /\ [][(reply' # reply /\ reply'.op = "login" /\ reply'.tokens)
            => \E u \in users : u.ID = reply'.uid /\ u.IsActive /\ u.Password # NoPassword]_vars

\* the users that carry the external subject id sub
Identities(sub) == {u \in users : u.GoogleID = sub}

\* the step in which the pending call c returns
Returned(c) == BagIn(c, pending) /\ pending' = pending (-) SetToBag({c})

\* C15: at most one user ever carries a given Google subject id, and every
\* sign-in with a verified assertion that goes on to provision its user
\* succeeds (the collaborator calls themselves not failing) and resolves to
\* the one user of its subject.
C15_IdentityUpsert ==
    /\ [](\A sub \in Subjects : Cardinality(Identities(sub)) <= 1)
    /\ [][\A c \in BagToSet(pending) :
            (/\ c.op = "google"
             /\ Returned(c)
             /\ \A u \in users : u.Email = c.email => u.GoogleID = c.sub) =>
            /\ reply'.status = 200
            /\ reply'.tokens
            /\ \E u \in users' : u.GoogleID = c.sub /\ u.ID = reply'.uid]_vars

\* the assertion passed the signature, audience and issuer checks
PassesChecks(a) ==
    a.valid /\ a.iss \in {"accounts.google.com", "https://accounts.google.com"}

\* C16: an assertion that passes signature, audience and issuer checks is
\* rejected as "email not verified" when its email_verified claim is present
\* and not true, and is not rejected on that ground when the claim is absent.
C16_EmailVerifiedRule ==
    \A a \in BagToSet(pending) :
        (reply.op = "verify" /\ PassesChecks(a)) =>
            /\ a.email_verified = "false" => reply.code = "email not verified"
            /\ a.email_verified = "absent" => reply.code # "email not verified"

\* the rows a revocation would still have to change
Unrevoked(db) == {r \in db : ~r.Revoked}

AccessTokens == {t \in issued : t.typ = TokenTypeAccess}

\* C18: an issued access token is accepted by VerifyAccessToken and by
\* JWTAuth at every moment before its own expiry, whatever Logout,
\* RevokeAllUserTokens or a rotation did to the records of its user in the
\* meantime; a step that does not move the clock, whatever it writes to the
\* table, changes the verdict on no issued access token.
C18_AccessTokensNotRevocable ==
    /\ [](\A t \in AccessTokens :
            now < t.exp => /\ VerifyAccessToken(jwtService, t, now)
                           /\ JWTAuthCode(Header("Bearer", t)) = "admitted")
    /\ [][now' = now =>
            \A t \in AccessTokens :
                VerifyAccessToken(jwtService', t, now') =
                    VerifyAccessToken(jwtService, t, now)]_vars

\* an access token is still accepted although every record of its user is
\* revoked and the user's refresh token was rotated after it was issued
C18_Witness ==
    \E t \in AccessTokens :
        /\ VerifyAccessToken(jwtService, t, now)
        /\ \E r \in store : r.UserID = t.uid
        /\ \A r \in store : r.UserID = t.uid => r.Revoked
        /\ \E e \in Rotations :
              \E r \in store : r.UserID = t.uid /\ r.TokenID = e.by /\ t.jti < e.by

\* C19: a password login whose user lookup fails with an I/O error of the
\* database (not with record-not-found) is answered with a 5xx status, not
\* with the 401 that bad credentials get.
C19_StorageFailureIsServerError ==
    [][\A email \in Emails, password \in Passwords :
          Login(email, password, "lookup fails") => reply'.status \in 500..599]_vars

Registered(email) == {u \in users : u.Email = email}

\* C20: whatever the order or interleaving of Register calls with one email,
\* at most one user with that email exists, and every Register call that
\* returns without having created the user is answered 409 USER_EXISTS and
\* gets no tokens.
C20_DuplicateEmailRegistration ==
    /\ [](\A email \in Emails : Cardinality(Registered(email)) <= 1)
    /\ [][(reply' # reply /\ reply'.op = "register" /\ users' = users) =>
            /\ reply'.status = 409
            /\ reply'.code = "USER_EXISTS"
            /\ ~reply'.tokens]_vars

\* the header is a bearer scheme, in any case, followed by one token
BearerForm(h) == Len(Fields(h)) = 2 /\ Lower(Fields(h)[1]) = <<"bearer">>

\* C21: ExtractTokenFromHeader returns the token of a header of the form
\* "Bearer <token>", the scheme in any case; it returns the header itself
\* when that is a bare string with exactly two dots and no white space of
\* any kind in it; for every other header it returns the empty string.
C21_ExtractTokenFromHeader ==
    \A c \in BagToSet(pending) :
        reply.op = "extract" =>
            ExtractTokenFromHeader(c.authHeader) =
                IF BearerForm(c.authHeader) THEN Fields(c.authHeader)[2]
                ELSE IF /\ Count(c.authHeader, ".") = 2
                        /\ \A w \in Whitespace : ~Contains(c.authHeader, w)
                THEN c.authHeader
                ELSE <<>>

\* C22: with one hasher doing both, Matches(p, Hash(p)) is true without an
\* error for every password p, and Matches(p2, Hash(p1)) is false for every
\* other password p2.
C22_HashRoundTrip ==
    \A c \in BagToSet(pending) :
        (reply.op = "matches" /\ c.verifier = c.hasher) =>
            /\ c.candidate = c.password => reply.code = "true"
            /\ c.candidate # c.password => reply.code = "false"

C22_Witness ==
    /\ reply.op = "matches" /\ reply.code = "false"
    /\ \E c \in BagToSet(pending) : c.verifier = c.hasher /\ c.candidate # c.password

\* C23: a hash encoded by a hasher with one parameter set is judged by a
\* hasher with another parameter set exactly as by the first: true for the
\* original password, false for any other.
C23_HashSelfDescription ==
    \A c \in BagToSet(pending) :
        (reply.op = "matches" /\ c.verifier # c.hasher) =>
            reply.code = IF c.candidate = c.password THEN "true" ELSE "false"

C23_Witness ==
    /\ reply.op = "matches" /\ reply.code = "true"
    /\ \E c \in BagToSet(pending) :
          /\ c.verifier.time # c.hasher.time
          /\ c.verifier.memory # c.hasher.memory
          /\ c.verifier.threads # c.hasher.threads

\* C24: when RefreshTokens returns a pair for T0, the table then holds the
\* record of the new refresh token T1 and the record of T0 with revoked set
\* and replaced_by equal to the id of T1; and a stored replaced_by always
\* names the token that the rotation of that record issued.
C24_PersistedRotationLink ==
    /\ [][\A c \in BagToSet(inflight) : Succeeded(c) =>
            /\ \E r \in store' : r.TokenID = NewPair(c).refresh.jti
            /\ \A r \in store' : r.TokenID = c.tok.jti =>
                  (r.Revoked /\ r.ReplacedBy = NewPair(c).refresh.jti)]_vars
    /\ [](\A r \in store : r.ReplacedBy # NoString =>
            \E e \in Rotations : e.jti = r.TokenID /\ e.by = r.ReplacedBy)

\* RevokeToken gets as far as its call of RevokeByTokenID
RevokeAttempted(tok) == RevokeTokenErr(tok) = ""

\* C25: for a refresh token the service signed that is no longer valid,
\* because its expiry has passed or because its record is revoked, Logout
\* still runs RevokeByTokenID with the id of the token.
C25_LogoutAlwaysRevokes ==
    \A t \in RefreshRecords :
        (~(now < t.exp) \/ \E r \in store : r.TokenID = t.jti /\ r.Revoked)
            => RevokeAttempted(t)

\* the step in which the in-flight call c ends, by returning or by dying
Ended(c) == BagIn(c, inflight) /\ inflight' = inflight (-) SetToBag({c})

\* C26: a RefreshTokens call that read its record after a revoke-all for the
\* owner had committed fails and creates no record; a call that had read a
\* valid record before the revoke-all committed, and runs to its end, creates
\* the new record, and that record is not revoked and is valid.
C26_RevokeAllRacingRefresh ==
    [][\A c \in BagToSet(inflight) : Ended(c) =>
          /\ "revokeAll" \in c.after => (store' = store /\ issued' = issued)
          /\ (/\ "revokeAll" \in After(c.tok.jti) \ c.after
              /\ IsValid(c.storedToken, now)
              /\ uuidCounter' # uuidCounter) =>
                \E r \in store' \ store :
                    /\ r.TokenID = NewPair(c).refresh.jti
                    /\ NewPair(c).refresh \in issued'
                    /\ IsValid(r, now')]_vars

\* a rotation went through although a revoke-all covered the presented token:
\* the record of the old token is revoked, the record of the new one is not;
\* and another call is in flight that read its record after a revoke-all
C26_Witness ==
    /\ \E e \in Rotations :
          /\ "revokeAll" \in After(e.jti)
          /\ \E r \in store : r.TokenID = e.jti /\ r.Revoked
          /\ \E r \in store : r.TokenID = e.by /\ IsValid(r, now)
    /\ \E c \in BagToSet(inflight) : "revokeAll" \in c.after

\* the step of a purge that deleted something: nothing else deletes records
PurgeStep == store' # store /\ store' \subseteq store

\* C27: CleanExpiredTokens deletes only records whose expires_at is before
\* now and leaves every other record as it is, and the purge changes the
\* outcome of RefreshTokens for no token a client can present and for no
\* call in flight.
C27_PurgeIsNeutral ==
    [][PurgeStep =>
          /\ \A r \in store \ store' : r.ExpiresAt < now
          /\ \A tok \in Presentable : WouldRefresh(tok)' = WouldRefresh(tok)
          /\ \A c \in BagToSet(inflight) :
                (RefreshIssueErr(c) = "")' = (RefreshIssueErr(c) = "")]_vars

\* the record of an issued refresh token has been purged while the record of
\* a token that can still be refreshed is in the table
C27_Witness ==
    /\ \E t \in RefreshRecords : GetByTokenID(store, t.jti) = {} /\ t.exp < now
    /\ \E t \in RefreshRecords : WouldRefresh(t)

\* email and password are those of a stored user
CorrectCredentials(email, password) ==
    \E u \in users :
        /\ u.Email = email
        /\ u.Password # NoPassword
        /\ Matches(passwordHasher, password, u.Password)

\* C28: a password login with correct credentials whose update of
\* last_login_at fails is answered 200 with a token pair for the user, and
\* the record of the new refresh token is stored.
C28_BestEffortLastLogin ==
    [][\A email \in Emails, password \in Passwords :
          (CorrectCredentials(email, password) /\ Login(email, password, "update fails")) =>
              /\ reply'.status = 200
              /\ reply'.tokens
              /\ \E u \in users : u.Email = email /\ u.ID = reply'.uid
              /\ \E r \in store' \ store : r.UserID = reply'.uid /\ IsValid(r, now')
              /\ users' = users]_vars

\* the last login was answered with tokens although the user's last_login_at
\* was never written
C28_Witness ==
    /\ reply.op = "login" /\ reply.status = 200 /\ reply.tokens
    /\ \E u \in users : u.ID = reply.uid /\ u.LastLoginAt = NoTime
    /\ \E r \in store : r.UserID = reply.uid

\* a rotation left half done in the table: a record revoked in favour of a
\* successor that has no record
HalfRotated(r) ==
    /\ r.Revoked
    /\ r.ReplacedBy # NoString
    /\ \A s \in store : s.TokenID # r.ReplacedBy

\* no reachable table holds a half-done rotation
NoHalfRotation == \A r \in store : ~HalfRotated(r)

\* the call c dies after its validity check and before its insert
DiesInWindow(c) ==
    /\ Ended(c)
    /\ IsValid(c.storedToken, now)
    /\ uuidCounter' = uuidCounter
    /\ store' = store

\* C29: a RefreshTokens call that dies between the revocation of the old
\* record and the insert of the new one leaves the table with the presented
\* record revoked and without a successor record, so that neither the old
\* nor a new refresh token of the client is valid.
C29_CrashWindow ==
    [][\A c \in BagToSet(inflight) : DiesInWindow(c) =>
          /\ \A r \in store' : r.TokenID = c.tok.jti => r.Revoked
          /\ \A r \in store' : r.TokenID # NewPair(c).refresh.jti
          /\ ~WouldRefresh(c.tok)']_vars

FavoritesOf(userID, data) ==
    FindFavoriteByTrackID(favorites, userID, data.Provider, data.ProviderTrackID)

\* C31: AddFavorite prevents duplicates: a user never has more than one
\* Favorite per (provider, provider_track_id), and an AddFavorite that
\* returns while the track is among the user's favorites returns
\* ErrFavoriteExists and inserts no row.
C31_NoDuplicateFavorites ==
    /\ [](\A u \in 1..NumUsers, d \in TrackData : Cardinality(FavoritesOf(u, d)) <= 1)
    /\ [][\A c \in BagToSet(pending) :
            (c.op = "addFavorite" /\ Returned(c) /\ FavoritesOf(c.userID, c.data) # {})
            => (reply'.code = ErrFavoriteExists /\ favorites' = favorites)]_vars


\* the tokens handed to a client in this step
Handed == issued' \ issued

\* C32: whenever GenerateTokens or RefreshTokens returns a pair, a record
\* with the returned refresh token's jti and user id is in the store at that
\* moment; when the record cannot be persisted, no pair is returned.
C32_ReturnedTokenHasRecord ==
    /\ [][\A t \in Handed :
            t.typ = TokenTypeRefresh
            => \E r \in store' : r.TokenID = t.jti /\ r.UserID = t.uid]_vars
    /\ [][(~dbUp \/ store' = store) => Handed = {}]_vars

\* a rotation returned a pair, and another call failed to persist its record
C32_Witness ==
    /\ Rotations # {}
    /\ uuidCounter > 3 * Cardinality(RefreshRecords)
    /\ \A t \in RefreshRecords : \E r \in store : r.TokenID = t.jti /\ r.UserID = t.uid


\* the records inserted in this step
Inserted == store' \ store

\* C33: every record's user id is the uid claim of the signed token with
\* the same jti; the record created by RefreshTokens has the owning user id
\* of the record of the presented token, and the pair it returns is for that
\* user.
C33_OwnershipAlongChain ==
    /\ [](\A r \in store, t \in RefreshRecords : t.jti = r.TokenID => r.UserID = t.uid)
    /\ [][\A c \in BagToSet(inflight) :
            Succeeded(c)
            => /\ \A r \in Inserted : r.UserID = c.storedToken.UserID
               /\ \A t \in Handed : t.uid = c.storedToken.UserID /\ t.uid = c.tok.uid]_vars

\* with two users signed in, the second user's token was rotated
C33_Witness ==
    \E e \in Rotations :
        /\ \E r \in store : r.TokenID = e.by /\ r.UserID = 2
        /\ \E t \in RefreshRecords : t.jti = e.jti /\ t.uid = 2
        /\ \E r \in store : r.UserID = 1


\* C34: the pair RefreshTokens returns carries the user id, the email and
\* the roles of the presented token's claims, whatever the users table says
\* by then, and no change of a users row changes whether a refresh succeeds.
C34_RefreshCopiesClaims ==
    /\ [][\A c \in BagToSet(inflight) :
            Succeeded(c)
            => \A t \in Handed :
                  t.uid = c.tok.uid /\ t.email = c.tok.email /\ t.roles = c.tok.roles]_vars
    /\ [][users' # users
          => \A tok \in Presentable : WouldRefresh(tok)' = WouldRefresh(tok)]_vars

\* a token that came out of a rotation of a rotated token carries roles the
\* user no longer has, the user is deactivated, and the token can be
\* refreshed
C34_Witness ==
    \E e, f \in Rotations, t \in RefreshRecords, u \in users :
        /\ e.by = f.jti
        /\ f.by = t.jti
        /\ u.ID = t.uid
        /\ ~u.IsActive
        /\ u.Roles # t.roles
        /\ WouldRefresh(t)


\* the step in which the in-flight call c returns an error: the record it
\* read is revoked or expired, or the new record cannot be persisted
Failed(c) ==
    /\ BagIn(c, inflight)
    /\ inflight' = inflight (-) SetToBag({c})
    /\ ~IsValid(c.storedToken, now) \/ ~dbUp

\* C35: when RefreshTokens returns an error, the stored records (and with
\* them every revoked and replaced_by field) are what they were before the
\* call, and no token pair is returned.  (A call that fails at the lookup
\* is a RefreshStart step, which leaves every variable as it was.)
C35_FailedRefreshChangesNothing ==
    [][\A c \in BagToSet(inflight) : Failed(c) => (store' = store /\ Handed = {})]_vars

\* a call that read a valid record is about to fail because the new record
\* cannot be persisted, after an earlier call failed the same way
C35_Witness ==
    /\ ~dbUp
    /\ store # {}
    /\ uuidCounter > 3 * Cardinality(RefreshRecords)
    /\ \E c \in BagToSet(inflight) : IsValid(c.storedToken, now)


\* C36: a Google sign-in of a user found by the subject id whose update of
\* last_login_at fails is answered with a 5xx failure; no token pair is
\* issued, no refresh record is stored and the users row is left as it was.
C36_GoogleLastLoginFatal ==
    [][\A a \in SignIns :
          (/\ VerifyIDTokenErr(a) = ""
           /\ GetUserByGoogleID(users, VerifyIDToken(a).ID) # {}
           /\ GoogleStart(a, "update fails")) =>
              /\ reply'.status >= 500
              /\ reply'.code = "GOOGLE_USER_CREATION_FAILED"
              /\ ~reply'.tokens
              /\ store' = store
              /\ issued' = issued
              /\ users' = users]_vars

\* the only user signed up with Google, no insert ever failed, and the last
\* Google sign-in was answered with the failure
C36_Witness ==
    /\ reply.op = "google" /\ reply.status = 500 /\ ~reply.tokens
    /\ reply.code = "GOOGLE_USER_CREATION_FAILED"
    /\ Cardinality(users) = 1
    /\ \A u \in users : u.GoogleID # Nil /\ u.LastLoginAt = NoTime
    /\ uuidCounter = 4
    /\ pending = EmptyBag
    /\ Cardinality(store) = 1


\* how many of the collected errors are provider p's
ErrorsOf(p) == Cardinality({k \in DOMAIN search.errors : search.errors[k] = p})

\* C37: for n enabled providers SearchAllProviders starts n searches and
\* returns after receiving exactly n results; each provider has either one
\* entry in the results and page-info maps or one error, never both and never
\* neither; no goroutine that holds its result finds the channel full; and
\* the call returns provided every provider search returns.
C37_FanOutFanIn ==
    /\ [](search.pc = "done"
          => /\ {g.provider : g \in search.goroutines} = search.providers
             /\ Cardinality(search.goroutines) = Cardinality(search.providers)
             /\ \A g \in search.goroutines : g.pc = "exited"
             /\ search.i = Cardinality(search.providers)
             /\ search.resultChan = <<>>
             /\ Cardinality(search.results) + Len(search.errors)
                   = Cardinality(search.providers)
             /\ \A p \in search.providers :
                   \/ p \in search.results /\ p \in search.pageInfos /\ ErrorsOf(p) = 0
                   \/ p \notin search.results /\ p \notin search.pageInfos /\ ErrorsOf(p) = 1)
    /\ [](\A g \in search.goroutines : g.pc = "sending" => ENABLED Send(g))
    /\ (search.pc = "running") ~> (search.pc = "done")

\* a call over all providers has returned with a result and an error
C37_Witness ==
    /\ search.pc = "done"
    /\ search.providers = ProviderNames
    /\ search.results # {}
    /\ search.errors # <<>>


\* C38: no two tracks of a playlist have the same position, and a track
\* that is added gets a position greater than that of every track present
\* when it is added.
C38_UniquePositions ==
    /\ [](\A s, t \in tracks : (s.PlaylistID = t.PlaylistID /\ s.Position = t.Position) => s = t)
    /\ [][\A n \in tracks' \ tracks, t \in tracks :
            t.PlaylistID = n.PlaylistID => n.Position > t.Position]_vars

====
